---- MODULE Spec2Model ----
(***************************************************************************)
(* ZDTT terminal: the plugin validator and quarantine (src/zdtt/plugins.py)*)
(* and, of ZDTTTerminal (src/terminal.py): the plugin loader and command   *)
(* registry, aliases and preferences, execute_command, the status bar with *)
(* its thread and text, the SIGWINCH handler and the loop of run().        *)
(***************************************************************************)
EXTENDS Integers, Sequences, FiniteSets, TLC

(* ------------------------------ bounds -------------------------------- *)

\* plugin files in ~/.zdtt/plugins, named 1..MaxFiles in glob order
MaxFiles == 2
\* shell commands that change the plugin directory during one session
MaxEdits == 1
\* top-level statements of a source handed to the validator
MaxStmts == 2
\* quarantine moves of one session
MaxMoves == 3
\* status bar threads started during one session
MaxThreads == 2
\* SIGWINCH signals delivered during one session
MaxResizes == 2
\* the widest terminal window, in columns
MaxWidth == 50

(* ------------------------- plugins.py: names -------------------------- *)

PROTECTED_COMMANDS ==
    {"ssh", "sudo", "su", "cp", "mv", "rm", "ls", "cat", "chmod", "chown",
     "history", "zps", "zdtt", "pip", "python", "python3", "curl", "wget"}

\* the keys of self.commands as the constructor fills it
BuiltinNames ==
    {"help", "clear", "exit", "quit", "about", "echo", "history", "plugins",
     "alias", "unalias", "zps", "time", "statusbar", "update",
     "ls", "pwd", "cd", "cat", "nano", "sysfetch", "mkdir", "touch", "rm",
     "mv", "cp", "whoami", "date", "uname", "grep",
     "python", "python3", "pip", "pip3"}

(* ---------------------- plugins.py: the validator ---------------------- *)

\* One top-level statement as ast.parse returns it: its node class (type);
\* for an ast.Expr the class of its value (node) and, for an ast.Constant,
\* the Python type of the constant (pytype); for a definition, one statement
\* nested in its body (nested).
SimpleTypes ==
    {"Import", "ImportFrom", "Assign", "AugAssign", "AnnAssign",
     "If", "For", "While", "Try", "With", "Pass"}

DefTypes == {"FunctionDef", "AsyncFunctionDef", "ClassDef"}

NestedTypes == {"Pass", "Assign", "Call", "If", "Import"}

ExprValues ==
    {[node |-> "Constant", pytype |-> "str"],
     [node |-> "Constant", pytype |-> "int"],
     [node |-> "Constant", pytype |-> "bytes"],
     [node |-> "Str", pytype |-> "str"],
     [node |-> "Call", pytype |-> "-"],
     [node |-> "JoinedStr", pytype |-> "-"],
     [node |-> "Name", pytype |-> "-"]}

Stmt(t, n, p, b) == [type |-> t, node |-> n, pytype |-> p, nested |-> b]

Stmts ==
    {Stmt(t, "-", "-", "-") : t \in SimpleTypes}
    \cup {Stmt("Expr", v.node, v.pytype, "-") : v \in ExprValues}
    \cup {Stmt(t, "-", "-", b) : t \in DefTypes, b \in NestedTypes}

SeqsUpTo(S, n) == UNION {[1..k -> S] : k \in 0..n}

\* what ast.parse makes of a source text: a SyntaxError, or a Module body
Sources ==
    {[parses |-> FALSE, body |-> <<>>]}
    \cup {[parses |-> TRUE, body |-> b] : b \in SeqsUpTo(Stmts, MaxStmts)}

\* the loop body of validate_plugin_ast: TRUE where the code says continue
StmtAllowed_AnyExpr(stmt) ==
    \/ stmt.type \in {"Import", "ImportFrom"}
    \/ stmt.type \in {"FunctionDef", "AsyncFunctionDef"}
    \/ stmt.type = "ClassDef"
    \/ stmt.type = "Expr"

StmtAllowed_WalksNested(stmt) ==
    \/ stmt.type \in {"Import", "ImportFrom"}
    \/ stmt.type \in DefTypes /\ stmt.nested \in {"Pass", "Import"}
    \/ /\ stmt.type = "Expr"
       /\ stmt.node \in {"Constant", "Str"}
       /\ IF stmt.node = "Constant" THEN stmt.pytype = "str" ELSE TRUE

StmtAllowed(stmt) ==
    \/ stmt.type \in {"Import", "ImportFrom"}
    \/ stmt.type \in {"FunctionDef", "AsyncFunctionDef"}
    \/ stmt.type = "ClassDef"
    \/ /\ stmt.type = "Expr"
       /\ stmt.node \in {"Constant", "Str"}
       /\ IF stmt.node = "Constant" THEN stmt.pytype = "str" ELSE TRUE

RECURSIVE ValidateBody(_, _)
ValidateBody(body, i) ==
    IF i > Len(body) THEN "ACCEPT"
    ELSE IF StmtAllowed(body[i]) THEN ValidateBody(body, i + 1)
    ELSE "REJECT"

\* "ACCEPT" is return True, "REJECT" is raise ValueError
validate_plugin_ast(plugin_code) ==
    IF ~plugin_code.parses THEN "REJECT"
    ELSE ValidateBody(plugin_code.body, 1)

(* --------------------- the plugin files of a session ------------------- *)

PluginFiles == 1..MaxFiles

Def(nested) == Stmt("FunctionDef", "-", "-", nested)

\* A plugin file's content: its source as ast.parse sees it (src), whether
\* executing its top level raises an Exception (raises), whether it defines
\* register_commands and what that returns (factory), and the returned
\* dictionary as name |-> is the value callable (cmds).
Plugin(body, raises, factory, cmds) ==
    [src |-> [parses |-> TRUE, body |-> body], raises |-> raises,
     factory |-> factory, cmds |-> cmds]

NoCmds == [n \in {} |-> TRUE]

Catalog ==
    [hello |->      \* src/example_plugin.py: imports, then functions
        Plugin(<<Stmt("Import", "-", "-", "-"), Def("Call"), Def("Pass")>>,
               FALSE, "dict", [n \in {"hello", "weather"} |-> TRUE]),
     protected |->  \* returns protected names, and one value is no callable
        Plugin(<<Def("Pass")>>, FALSE, "dict",
               [n \in {"sudo", "ls", "foo"} |-> n # "foo"]),
     shadow |->     \* returns the name of a built-in and a name of hello's
        Plugin(<<Def("Pass")>>, FALSE, "dict",
               [n \in {"help", "hello"} |-> TRUE]),
     printer |->    \* print("loaded") at top level
        Plugin(<<Stmt("Expr", "Call", "-", "-"), Def("Pass")>>,
               FALSE, "dict", [n \in {"echo2"} |-> TRUE]),
     raiser |->     \* its top level raises while it is executed
        Plugin(<<Def("Pass"), Stmt("Import", "-", "-", "-")>>,
               TRUE, "dict", [n \in {"never"} |-> TRUE]),
     nofactory |->  \* defines no register_commands
        Plugin(<<Def("Pass")>>, FALSE, "missing", NoCmds),
     nondict |->    \* register_commands returns a list
        Plugin(<<Def("Pass")>>, FALSE, "other", NoCmds)]

Contents == DOMAIN Catalog

Absent == "absent"

\* a directory listing: what each file name holds
DirStates == [PluginFiles -> Contents \cup {Absent}]

\* the statement is executed when the module body runs (exec)
TopLevelEffect(stmt) ==
    \/ stmt.type \in {"Assign", "AugAssign", "AnnAssign", "If", "For",
                      "While", "Try", "With"}
    \/ stmt.type = "Expr" /\ stmt.node = "Call"

HasTopLevelEffect(c) ==
    \E i \in 1..Len(Catalog[c].src.body) : TopLevelEffect(Catalog[c].src.body[i])

\* the source holds an import statement, at top level or nested
uses_imports(c) ==
    \E i \in 1..Len(Catalog[c].src.body) :
        \/ Catalog[c].src.body[i].type \in {"Import", "ImportFrom"}
        \/ Catalog[c].src.body[i].nested = "Import"

(* -------------------------- terminal.py: state ------------------------- *)

VARIABLES
    phase,                \* "boot" before ZDTTTerminal.__init__, then "idle"
    plugin_dir,           \* the files of self.plugin_dir
    quarantine_dir,       \* the file names in the quarantine directory
    commands,             \* self.commands: name |-> handler
    plugin_command_names, \* self.plugin_command_names
    failed_count,         \* failed_count of the last load_plugins
    log,                  \* files named in plugin_errors.log
    executed,             \* <<file, content>> whose source exec() has run
    edits,                \* directory-changing commands so far
    loaded_dir,           \* the directory as the last load_plugins saw it
    prev_dir,             \* the directory as the load before that saw it
    prev_commands,        \* self.commands at the end of the load before
    src,                  \* validator: the source under validation
    verdict,              \* validator: "none", "ACCEPT" or "REJECT"
    q_files,              \* quarantine: path |-> file in the quarantine dir
    q_plugin,             \* quarantine: name |-> file at plugin_file, 0 none
    q_made,               \* quarantine: files created so far
    q_calls,              \* quarantine: calls of move_to_quarantine so far
    q_ret,                \* quarantine: the last call and what it returned
    q_log,                \* quarantine: the logger's <<level, file>> records
    stack,                \* thread |-> its call stack, innermost frame last
    started,              \* the status bar threads start() has launched
    status_bar_thread,    \* self.status_bar_thread, 0 for None
    status_bar_stop_event, \* self.status_bar_stop_event is set
    scroll_region_set,    \* self.scroll_region_set
    term_region,          \* the terminal's scroll region: "full", "reserved"
    resize_lock,          \* self.resize_lock is held
    running,              \* self.running
    leave,                \* how run() left its loop, "none" while inside
    last_event,           \* the last read, shutdown or resize on the main thread
    farewells,            \* "Goodbye!" lines printed
    resizes,              \* SIGWINCH deliveries so far
    aliases,              \* self.aliases: name |-> command
    aliases_file,         \* the lines of self.aliases_file, <<>> if missing
    status_bar_color,     \* self.status_bar_color
    config_file,          \* the content of self.config_file
    dispatched,           \* the last line execute_command resolved
    columns,              \* shutil.get_terminal_size().columns, -1: it raises
    bar_text              \* what _build_status_bar_text returned, <<>>: none

loaderVars ==
    <<phase, plugin_dir, quarantine_dir, commands, plugin_command_names,
      failed_count, log, executed, edits, loaded_dir, prev_dir,
      prev_commands>>

astVars == <<src, verdict>>

quarantineVars == <<q_files, q_plugin, q_made, q_calls, q_ret, q_log>>

runVars ==
    <<stack, started, status_bar_thread, status_bar_stop_event,
      scroll_region_set, term_region, resize_lock, running, leave,
      last_event, farewells, resizes>>

shellVars ==
    <<aliases, aliases_file, status_bar_color, config_file, dispatched>>

barVars == <<columns, bar_text>>

vars == <<loaderVars, astVars, quarantineVars, runVars, shellVars, barVars>>

\* a handler: the file it came from (0: the terminal itself), the content
\* of that file when it was loaded, and whether the value is callable
\* a file name is the stem "p" followed by its "_<n>" suffixes and ".py":
\* <<>> is p.py, <<1>> is p_1.py, <<1, 2>> is p_1_2.py
PluginNames == {<<>>, <<1>>}

NoFiles == [p \in {} |-> 0]

NotCalled == [kind |-> "not called", name |-> <<>>, file |-> 0, path |-> <<>>]

\* an empty quarantine directory, no plugin file, move_to_quarantine not called
QuarantineIdle ==
    /\ q_files = NoFiles
    /\ q_plugin = [nm \in PluginNames |-> 0]
    /\ q_made = 0
    /\ q_calls = 0
    /\ q_ret = NotCalled
    /\ q_log = {}

\* the threads: 0 is the main thread, -1 the update check that __init__
\* starts, the others run status_bar_loop
Main == 0

Updater == -1

BarThreads == 1..MaxThreads

Threads == {Main, Updater} \cup BarThreads

\* one activation of a function: its name, where it stands, its local
Frame(fn, pc, arg) == [fn |-> fn, pc |-> pc, arg |-> arg]

\* no thread runs anything and the fields are as __init__ leaves them
RunIdle ==
    /\ stack = [t \in Threads |-> <<>>]
    /\ started = {}
    /\ status_bar_thread = 0
    /\ status_bar_stop_event = FALSE
    /\ scroll_region_set = FALSE
    /\ term_region = "full"
    /\ resize_lock = FALSE
    /\ running = TRUE
    /\ leave = "none"
    /\ last_event = "none"
    /\ farewells = 0
    /\ resizes = 0

Handler(origin, content, callable) ==
    [origin |-> origin, content |-> content, callable |-> callable]

BuiltinHandler == Handler(0, "built-in", TRUE)

BuiltinCommands == [n \in BuiltinNames |-> BuiltinHandler]

NoDir == [f \in PluginFiles |-> "unread"]

\* f with the pair x |-> v added or replaced
Put(f, x, v) == [y \in DOMAIN f \cup {x} |-> IF y = x THEN v ELSE f[y]]

(* -------------------- terminal.py: strings and aliases ----------------- *)

\* a Python str is the sequence of its characters: "ls" is <<"l", "s">>
UpperCase ==
    <<"A", "B", "C", "D", "E", "F", "G", "H", "I", "J", "K", "L", "M",
      "N", "O", "P", "Q", "R", "S", "T", "U", "V", "W", "X", "Y", "Z">>

LowerCase ==
    <<"a", "b", "c", "d", "e", "f", "g", "h", "i", "j", "k", "l", "m",
      "n", "o", "p", "q", "r", "s", "t", "u", "v", "w", "x", "y", "z">>

\* an upper-case letter |-> its lower-case letter
LowerOf ==
    [c \in {UpperCase[i] : i \in DOMAIN UpperCase} |->
        LowerCase[CHOOSE i \in DOMAIN UpperCase : UpperCase[i] = c]]

LowerChar(c) == IF c \in DOMAIN LowerOf THEN LowerOf[c] ELSE c

\* str.lower()
lower(s) == [i \in 1..Len(s) |-> LowerChar(s[i])]

RECURSIVE lstrip(_)
lstrip(s) == IF s # <<>> /\ s[1] = " " THEN lstrip(Tail(s)) ELSE s

RECURSIVE rstrip(_)
rstrip(s) ==
    IF s # <<>> /\ s[Len(s)] = " " THEN rstrip(SubSeq(s, 1, Len(s) - 1))
    ELSE s

\* str.strip()
strip(s) == rstrip(lstrip(s))

RECURSIVE SplitFrom(_, _, _)
SplitFrom(s, word, parts) ==
    IF s = <<>> THEN (IF word = <<>> THEN parts ELSE Append(parts, word))
    ELSE IF s[1] = " "
         THEN SplitFrom(Tail(s), <<>>,
                        IF word = <<>> THEN parts ELSE Append(parts, word))
    ELSE SplitFrom(Tail(s), Append(word, s[1]), parts)

\* str.split(): the words between runs of blanks (shlex.split gives the
\* same words for a line without quotes or backslashes)
split(s) == SplitFrom(s, <<>>, <<>>)

RECURSIVE join(_)
\* ' '.join(parts)
join(parts) ==
    IF parts = <<>> THEN <<>>
    ELSE IF Len(parts) = 1 THEN parts[1]
    ELSE parts[1] \o <<" ">> \o join(Tail(parts))

\* '=' in s
HasEquals(s) == \E i \in 1..Len(s) : s[i] = "="

FirstEquals(s) == CHOOSE i \in 1..Len(s) : s[i] = "=" /\ \A j \in 1..(i - 1) : s[j] # "="

\* name, command = s.split('=', 1), then strip() of both
SplitEquals(s) ==
    [name |-> strip(SubSeq(s, 1, FirstEquals(s) - 1)),
     command |-> strip(SubSeq(s, FirstEquals(s) + 1, Len(s)))]

NoAliases == [n \in {} |-> <<>>]

\* one line of the aliases file read into the map
LoadAliasLine(al, raw) ==
    LET line == strip(raw)
    IN  IF line = <<>> \/ line[1] = "#" THEN al
        ELSE IF ~HasEquals(line) THEN al
        ELSE IF SplitEquals(line).name = <<>> \/ SplitEquals(line).command = <<>>
             THEN al
        ELSE Put(al, SplitEquals(line).name, SplitEquals(line).command)

RECURSIVE LoadAliasLines(_, _, _)
LoadAliasLines(al, file, i) ==
    IF i > Len(file) THEN al
    ELSE LoadAliasLines(LoadAliasLine(al, file[i]), file, i + 1)

\* load_aliases: every line of the file, in order, into self.aliases; a
\* missing file (<<>>) leaves the map as it is
load_aliases(al, file) == LoadAliasLines(al, file, 1)

\* the characters in code point order
CharOrder == <<" ", "#", "-", "=">> \o UpperCase \o LowerCase

CharRank ==
    [c \in {CharOrder[i] : i \in DOMAIN CharOrder} |->
        CHOOSE i \in DOMAIN CharOrder : CharOrder[i] = c]

\* sorted(): the names in ascending order, compared character by character
RECURSIVE Less(_, _)
Less(a, b) ==
    IF a = <<>> THEN b # <<>>
    ELSE IF b = <<>> THEN FALSE
    ELSE IF a[1] = b[1] THEN Less(Tail(a), Tail(b))
    ELSE CharRank[a[1]] < CharRank[b[1]]

RECURSIVE Sorted(_)
Sorted(names) ==
    IF names = {} THEN <<>>
    ELSE LET first == CHOOSE n \in names : \A m \in names \ {n} : Less(n, m)
         IN  <<first>> \o Sorted(names \ {first})

\* "# ZDTT Terminal Aliases", "# Format: alias_name=command", "#"
AliasHeader ==
    <<<<"#", " ", "Z", "D", "T", "T", " ", "T", "e", "r", "m", "i", "n", "a",
        "l", " ", "A", "l", "i", "a", "s", "e", "s">>,
      <<"#", " ", "F", "o", "r", "m", "a", "t", ":", " ", "a", "l", "i", "a",
        "s", "_", "n", "a", "m", "e", "=", "c", "o", "m", "m", "a", "n", "d">>,
      <<"#">>>>

\* save_aliases: the header, then "name=command" for the sorted items
save_aliases(al) ==
    LET names == Sorted(DOMAIN al)
    IN  AliasHeader \o [i \in 1..Len(names) |->
                           names[i] \o <<"=">> \o al[names[i]]]

\* the expansion applied to its own result
expand_aliases_Again(al, command_line) ==
    LET once(l) ==
            IF split(strip(l)) = <<>> THEN l
            ELSE IF split(strip(l))[1] \in DOMAIN al
                 THEN join(<<al[split(strip(l))[1]]>> \o Tail(split(strip(l))))
            ELSE l
    IN  once(once(command_line))

\* expand_aliases: the first word is looked up once; the result is not
\* looked up again
expand_aliases(al, command_line) ==
    LET parts == split(strip(command_line))
    IN  IF parts = <<>> THEN command_line
        ELSE IF parts[1] \in DOMAIN al
             THEN IF Len(parts) > 1
                  THEN al[parts[1]] \o <<" ">> \o join(Tail(parts))
                  ELSE al[parts[1]]
        ELSE command_line

(* ------------------------ terminal.py: preferences --------------------- *)

blue == <<"b", "l", "u", "e">>

red == <<"r", "e", "d">>

\* the names of STATUS_BAR_COLORS
STATUS_BAR_COLORS ==
    {blue, red, <<"g", "r", "e", "e", "n">>, <<"c", "y", "a", "n">>,
     <<"m", "a", "g", "e", "n", "t", "a">>, <<"y", "e", "l", "l", "o", "w">>,
     <<"w", "h", "i", "t", "e">>, <<"b", "l", "a", "c", "k">>}

\* the preferences file: missing, not JSON, or a JSON object key |-> value
NoConfig == [kind |-> "missing", data |-> [k \in {} |-> <<>>]]

CorruptConfig == [kind |-> "corrupt", data |-> [k \in {} |-> <<>>]]

JsonObject(data) == [kind |-> "object", data |-> data]

\* load_preferences: data.get('status_bar_color', self.status_bar_color)
load_preferences(color, file) ==
    IF file.kind = "object" /\ "status_bar_color" \in DOMAIN file.data
    THEN file.data["status_bar_color"]
    ELSE color

\* save_preferences: the object read back, or {}, with the colour set
save_preferences(color, file) ==
    JsonObject(Put(IF file.kind = "object" THEN file.data
                   ELSE [k \in {} |-> <<>>],
                   "status_bar_color", color))

NotDispatched ==
    [line |-> <<>>, expanded |-> <<>>, cmd |-> <<>>,
     handler |-> Handler(0, <<>>, FALSE)]

\* no alias, no aliases file, the default colour, no preferences file
ShellIdle ==
    /\ aliases = NoAliases
    /\ aliases_file = <<>>
    /\ status_bar_color = blue
    /\ config_file = NoConfig
    /\ dispatched = NotDispatched

\* the terminal width is not read and no bar text is built
BarIdle ==
    /\ columns = 0
    /\ bar_text = <<>>

(* ------------------------ terminal.py: the loader ---------------------- *)

\* the locals of one load_plugins call, with the state it changes
LoadState(cmds, names, failed, lg, ex) ==
    [commands |-> cmds, names |-> names, failed_count |-> failed,
     log |-> lg, executed |-> ex]

Register_OnlyCallables(st, f, c) ==
    LET d == Catalog[c].cmds
        ok == {n \in DOMAIN d : d[n]}
    IN  [st EXCEPT
            !.commands = [n \in DOMAIN st.commands \cup ok |->
                            IF n \in ok THEN Handler(f, c, d[n])
                            ELSE st.commands[n]],
            !.names = st.names \cup ok]

Register_KeepsExisting(st, f, c) ==
    LET d == Catalog[c].cmds
    IN  [st EXCEPT
            !.commands = [n \in DOMAIN st.commands \cup DOMAIN d |->
                            IF n \in DOMAIN st.commands THEN st.commands[n]
                            ELSE Handler(f, c, d[n])],
            !.names = st.names \cup DOMAIN d]

\* self.commands.update(plugin_commands), then
\* self.plugin_command_names.update(plugin_commands.keys())
Register(st, f, c) ==
    LET d == Catalog[c].cmds
    IN  [st EXCEPT
            !.commands = [n \in DOMAIN st.commands \cup DOMAIN d |->
                            IF n \in DOMAIN d THEN Handler(f, c, d[n])
                            ELSE st.commands[n]],
            !.names = st.names \cup DOMAIN d]

\* the except branch: failed_count += 1 and two logging.error lines
LoadFailed(st, f) ==
    [st EXCEPT !.failed_count = st.failed_count + 1, !.log = st.log \cup {f}]

\* the body of the for loop for plugin file f holding content c
LoadOne(st, f, c) ==
    LET ran == [st EXCEPT !.executed = st.executed \cup {<<f, c>>}]
    IN  IF Catalog[c].raises THEN LoadFailed(ran, f)
        ELSE IF Catalog[c].factory = "missing" THEN LoadFailed(ran, f)
        ELSE IF Catalog[c].factory # "dict" THEN LoadFailed(ran, f)
        ELSE Register(ran, f, c)

RECURSIVE LoadFrom_StopsOnFailure(_, _, _)
LoadFrom_StopsOnFailure(st, dir, i) ==
    IF i > MaxFiles THEN st
    ELSE IF dir[i] = Absent THEN LoadFrom_StopsOnFailure(st, dir, i + 1)
    ELSE IF LoadOne(st, i, dir[i]).failed_count > st.failed_count
         THEN LoadOne(st, i, dir[i])
    ELSE LoadFrom_StopsOnFailure(LoadOne(st, i, dir[i]), dir, i + 1)

\* the for loop over glob's listing, from file i on
RECURSIVE LoadFrom(_, _, _)
LoadFrom(st, dir, i) ==
    IF i > MaxFiles THEN st
    ELSE IF dir[i] = Absent THEN LoadFrom(st, dir, i + 1)
    ELSE LoadFrom(LoadOne(st, i, dir[i]), dir, i + 1)

load_plugins(cmds, names, lg, ex, dir) ==
    LoadFrom(LoadState(cmds, names, 0, lg, ex), dir, 1)

\* an unload that pops nothing
unload_KeepsAll(cmds) == cmds

\* pop every name of plugin_command_names, then clear the set
unload_plugin_commands(cmds) ==
    [n \in DOMAIN cmds \ plugin_command_names |-> cmds[n]]

(* --------------------------- terminal.py: steps ------------------------ *)

Loaded(st) ==
    /\ commands' = st.commands
    /\ plugin_command_names' = st.names
    /\ failed_count' = st.failed_count
    /\ log' = st.log
    /\ executed' = st.executed
    /\ loaded_dir' = plugin_dir
    /\ prev_dir' = loaded_dir

\* ZDTTTerminal.__init__: the built-in commands, load_aliases into the
\* empty map, load_preferences over the default colour, then load_plugins
Construct ==
    /\ phase = "boot"
    /\ phase' = "idle"
    /\ aliases' = load_aliases(NoAliases, aliases_file)
    /\ status_bar_color' = load_preferences(blue, config_file)
    /\ Loaded(load_plugins(BuiltinCommands, {}, log, executed, plugin_dir))
    /\ prev_commands' = commands
    /\ UNCHANGED <<plugin_dir, quarantine_dir, edits, astVars, quarantineVars,
                   runVars, aliases_file, config_file, dispatched, barVars>>

\* cmd_plugins(['reload']): unload_plugin_commands, self.aliases.clear(),
\* load_aliases, then load_plugins
CmdPluginsReload ==
    /\ phase = "idle"
    /\ aliases' = load_aliases(NoAliases, aliases_file)
    /\ Loaded(load_plugins(unload_plugin_commands(commands), {}, log,
                           executed, plugin_dir))
    /\ prev_commands' = commands
    /\ UNCHANGED <<phase, plugin_dir, quarantine_dir, edits, astVars,
                   quarantineVars, runVars, aliases_file, status_bar_color,
                   config_file, dispatched, barVars>>

\* cmd_zps(['install', url]): the download is written to the plugin directory
CmdZpsInstall(f, c) ==
    /\ phase = "idle"
    /\ edits < MaxEdits
    /\ plugin_dir[f] # c
    /\ plugin_dir' = [plugin_dir EXCEPT ![f] = c]
    /\ edits' = edits + 1
    /\ UNCHANGED <<phase, quarantine_dir, commands, plugin_command_names,
                   failed_count, log, executed, loaded_dir, prev_dir,
                   prev_commands, astVars, quarantineVars, runVars,
                   shellVars, barVars>>

\* cmd_rm([path]) with the path of a plugin file
CmdRm(f) ==
    /\ phase = "idle"
    /\ edits < MaxEdits
    /\ plugin_dir[f] # Absent
    /\ plugin_dir' = [plugin_dir EXCEPT ![f] = Absent]
    /\ edits' = edits + 1
    /\ UNCHANGED <<phase, quarantine_dir, commands, plugin_command_names,
                   failed_count, log, executed, loaded_dir, prev_dir,
                   prev_commands, astVars, quarantineVars, runVars,
                   shellVars, barVars>>

NoSource == [parses |-> TRUE, body |-> <<>>]

Init ==
    /\ phase = "boot"
    /\ plugin_dir \in DirStates
    /\ quarantine_dir = {}
    /\ commands = NoCmds
    /\ plugin_command_names = {}
    /\ failed_count = 0
    /\ log = {}
    /\ executed = {}
    /\ edits = 0
    /\ loaded_dir = NoDir
    /\ prev_dir = NoDir
    /\ prev_commands = NoCmds
    /\ src = NoSource
    /\ verdict = "none"
    /\ QuarantineIdle
    /\ RunIdle
    /\ ShellIdle
    /\ BarIdle

Next ==
    \/ Construct
    \/ CmdPluginsReload
    \/ \E f \in PluginFiles, c \in Contents : CmdZpsInstall(f, c)
    \/ \E f \in PluginFiles : CmdRm(f)

Spec == Init /\ [][Next]_vars

(* ------------------------- the validator, applied ---------------------- *)

\* validate_plugin_ast(src, name) called on one source
AstValidate ==
    /\ verdict = "none"
    /\ verdict' = validate_plugin_ast(src)
    /\ UNCHANGED <<src, loaderVars, quarantineVars, runVars, shellVars,
                   barVars>>

InitAst ==
    /\ phase = "boot"
    /\ plugin_dir = [f \in PluginFiles |-> Absent]
    /\ quarantine_dir = {}
    /\ commands = NoCmds
    /\ plugin_command_names = {}
    /\ failed_count = 0
    /\ log = {}
    /\ executed = {}
    /\ edits = 0
    /\ loaded_dir = NoDir
    /\ prev_dir = NoDir
    /\ prev_commands = NoCmds
    /\ src \in Sources
    /\ verdict = "none"
    /\ QuarantineIdle
    /\ RunIdle
    /\ ShellIdle
    /\ BarIdle

NextAst == AstValidate

SpecAst == InitAst /\ [][NextAst]_vars

(* ---------------------- plugins.py: move_to_quarantine ----------------- *)

\* the while loop: the first counter whose f"{name}_{counter}{ext}" is free
RECURSIVE FirstFreeCounter(_, _, _)
FirstFreeCounter(plugin_name, counter, files) ==
    IF Append(plugin_name, counter) \notin DOMAIN files THEN counter
    ELSE FirstFreeCounter(plugin_name, counter + 1, files)

\* a path choice that tries the suffix _1 and looks no further
quarantine_path_OneTry(plugin_name, files) ==
    IF plugin_name \notin DOMAIN files THEN plugin_name
    ELSE Append(plugin_name, 1)

\* quarantine_path as the loop leaves it
quarantine_path(plugin_name, files) ==
    IF plugin_name \notin DOMAIN files THEN plugin_name
    ELSE Append(plugin_name, FirstFreeCounter(plugin_name, 1, files))


QState(files, plugin, ret, lg) ==
    [files |-> files, plugin |-> plugin, ret |-> ret, log |-> lg]

\* what shutil.move can do: rename the file; raise with nothing done; or,
\* when the rename is refused, copy the file and raise from os.unlink
MoveOutcomes == {"moved", "raised", "copied"}

\* a move whose except branch hands back the path it computed
move_to_quarantine_PathOnFailure(st, plugin_name, outcome) ==
    LET path == quarantine_path(plugin_name, st.files)
        file == st.plugin[plugin_name]
        ret == [kind |-> "path", name |-> plugin_name, file |-> file,
                path |-> path]
    IN  IF outcome = "moved"
        THEN QState(Put(st.files, path, file),
                    [st.plugin EXCEPT ![plugin_name] = 0], ret,
                    st.log \cup {<<"warning", file, path>>})
        ELSE QState(IF outcome = "copied" THEN Put(st.files, path, file)
                    ELSE st.files,
                    st.plugin, ret, st.log \cup {<<"error", file, <<>>>>})

\* move_to_quarantine(plugin_file, quarantine_dir, logger) with the outcome
\* of its shutil.move
move_to_quarantine(st, plugin_name, outcome) ==
    LET path == quarantine_path(plugin_name, st.files)
        file == st.plugin[plugin_name]
    IN  IF outcome = "moved"
        THEN QState(Put(st.files, path, file),
                    [st.plugin EXCEPT ![plugin_name] = 0],
                    [kind |-> "path", name |-> plugin_name, file |-> file,
                     path |-> path],
                    st.log \cup {<<"warning", file, path>>})
        ELSE QState(IF outcome = "copied" THEN Put(st.files, path, file)
                    ELSE st.files,
                    st.plugin,
                    [kind |-> "None", name |-> plugin_name, file |-> file,
                     path |-> <<>>],
                    st.log \cup {<<"error", file, <<>>>>})

\* a new file is written at a free plugin path
QWritePlugin(plugin_name) ==
    /\ q_made < MaxMoves
    /\ q_plugin[plugin_name] = 0
    /\ q_made' = q_made + 1
    /\ q_plugin' = [q_plugin EXCEPT ![plugin_name] = q_made + 1]
    /\ UNCHANGED <<q_files, q_calls, q_ret, q_log, loaderVars, astVars,
                   runVars, shellVars, barVars>>

\* one call of move_to_quarantine on the file at a plugin path
QMove(plugin_name, outcome) ==
    /\ q_calls < MaxMoves
    /\ q_plugin[plugin_name] # 0
    /\ q_calls' = q_calls + 1
    /\ LET st == move_to_quarantine(QState(q_files, q_plugin, q_ret, q_log),
                                    plugin_name, outcome)
       IN  /\ q_files' = st.files
           /\ q_plugin' = st.plugin
           /\ q_ret' = st.ret
           /\ q_log' = st.log
    /\ UNCHANGED <<q_made, loaderVars, astVars, runVars, shellVars,
                   barVars>>

InitQ ==
    /\ phase = "boot"
    /\ plugin_dir = [f \in PluginFiles |-> Absent]
    /\ quarantine_dir = {}
    /\ commands = NoCmds
    /\ plugin_command_names = {}
    /\ failed_count = 0
    /\ log = {}
    /\ executed = {}
    /\ edits = 0
    /\ loaded_dir = NoDir
    /\ prev_dir = NoDir
    /\ prev_commands = NoCmds
    /\ src = NoSource
    /\ verdict = "none"
    /\ QuarantineIdle
    /\ RunIdle
    /\ ShellIdle
    /\ BarIdle

NextQ ==
    \/ \E nm \in PluginNames : QWritePlugin(nm)
    \/ \E nm \in PluginNames, o \in MoveOutcomes : QMove(nm, o)

SpecQ == InitQ /\ [][NextQ]_vars

(* ------------------ terminal.py: status bar and run loop --------------- *)

otherVars == <<loaderVars, astVars, quarantineVars, shellVars, barVars>>

Top(t) == stack[t][Len(stack[t])]

\* thread t is in function fn at step pc
At(t, fn, pc) == stack[t] # <<>> /\ Top(t).fn = fn /\ Top(t).pc = pc

Pop(stk) == SubSeq(stk, 1, Len(stk) - 1)

Goto(stk, pc) == [stk EXCEPT ![Len(stk)].pc = pc]

\* the innermost frame calls a function and will go on at pc when it returns
Call(stk, pc, callee) == Append(Goto(stk, pc), callee)

RenderFrame == Frame("render_status_bar", "begin", "-")

\* Thread.is_alive()
Alive(b) == b \in BarThreads /\ stack[b] # <<>>

\* what the writes of set_scroll_region can come to: all written; an error
\* before anything reached the terminal; an error after the region
\* sequence reached it
RegionOutcomes == {"written", "failed", "partial"}

\* set_scroll_region: the terminal's region and scroll_region_set afterwards
set_scroll_region(term, outcome) ==
    CASE outcome = "written" -> [term |-> "reserved", flag |-> TRUE]
      [] outcome = "partial" -> [term |-> "reserved", flag |-> FALSE]
      [] OTHER -> [term |-> term, flag |-> FALSE]

\* reset_scroll_region: nothing unless scroll_region_set
reset_scroll_region(term, flag) ==
    IF flag THEN [term |-> "full", flag |-> FALSE]
    ELSE [term |-> term, flag |-> flag]

\* an acquire that never finds the lock held
TryAcquire_Always(lock) == TRUE

\* resize_lock.acquire(blocking=False)
TryAcquire(lock) == ~lock

\* an error in render_status_bar that leaves every frame of the thread
AfterRenderError_Propagates(stk) == <<>>

\* an error in render_status_bar lands in its except clause
AfterRenderError(stk) == Goto(stk, "except")

\* an error in handle_resize that leaves the handler at once
AfterResizeError_Propagates(stk) == Pop(stk)

\* an error in handle_resize: except Exception: pass, then the finally clause
AfterResizeError(stk) == Goto(stk, "release")

\* a reload that returns once the plugin commands are removed
AfterUnload_Returns(stk) == Pop(stk)

\* cmd_plugins: after unload_plugin_commands and the aliases, load_plugins
AfterUnload(stk) == Goto(stk, "load")

\* the plugin directory of the session: example_plugin.py
RunDir == [f \in PluginFiles |-> IF f = 1 THEN "hello" ELSE Absent]

\* a loop that goes on to the next render whatever wait(2) returned
AfterWait_RendersAgain(stk, is_set) == Call(stk, "wait", RenderFrame)

\* status_bar_loop: if stop_event.wait(2): break; else back to the while test
AfterWait(stk, is_set) == IF is_set THEN <<>> ELSE Goto(stk, "check")

\* the lines the operator types
Lines == {"exit", "quit", "statusbar", "hello"}

\* what a call of a plugin's handler can come to
HandlerOutcomes == {"returns", "raises", "interrupted"}

\* run(): install the SIGWINCH handler, clear, call initialize_status_bar
RunStart ==
    /\ At(Main, "run", "start")
    /\ stack' = [stack EXCEPT ![Main] =
           Call(@, "banner",
                Frame("initialize_status_bar", "set_scroll_region", "-"))]
    /\ UNCHANGED <<started, status_bar_thread, status_bar_stop_event,
                   scroll_region_set, term_region, resize_lock, running,
                   leave, last_event, farewells, resizes, otherVars>>

\* initialize_status_bar: self._set_scroll_region()
InitSetScrollRegion(outcome) ==
    /\ At(Main, "initialize_status_bar", "set_scroll_region")
    /\ LET r == set_scroll_region(term_region, outcome)
       IN  /\ term_region' = r.term
           /\ scroll_region_set' = r.flag
    /\ stack' = [stack EXCEPT ![Main] = Goto(@, "start_thread")]
    /\ UNCHANGED <<started, status_bar_thread, status_bar_stop_event,
                   resize_lock, running, leave, last_event, farewells,
                   resizes, otherVars>>

\* initialize_status_bar: self._start_status_bar_thread(), then the call of
\* _render_status_bar; starts says whether Thread.start() goes through
InitStartThread(starts) ==
    /\ At(Main, "initialize_status_bar", "start_thread")
    /\ IF Alive(status_bar_thread)
       THEN /\ stack' = [stack EXCEPT ![Main] = Call(@, "return", RenderFrame)]
            /\ UNCHANGED <<started, status_bar_thread, status_bar_stop_event,
                           leave>>
       ELSE /\ BarThreads \ started # {}
            /\ LET b == CHOOSE x \in BarThreads \ started :
                            \A y \in BarThreads \ started : x <= y
               IN  /\ status_bar_stop_event' = FALSE
                   /\ status_bar_thread' = b
                   /\ IF starts
                      THEN /\ started' = started \cup {b}
                           /\ stack' = [stack EXCEPT
                                  ![Main] = Call(@, "return", RenderFrame),
                                  ![b] = <<Frame("status_bar_loop", "check",
                                                 "-")>>]
                           /\ UNCHANGED leave
                      ELSE /\ stack' = [stack EXCEPT ![Main] = <<>>]
                           /\ leave' = "init_error"
                           /\ UNCHANGED started
    /\ UNCHANGED <<scroll_region_set, term_region, resize_lock, running,
                   last_event, farewells, resizes, otherVars>>

\* initialize_status_bar returns to run()
InitReturn ==
    /\ At(Main, "initialize_status_bar", "return")
    /\ stack' = [stack EXCEPT ![Main] = Pop(@)]
    /\ UNCHANGED <<started, status_bar_thread, status_bar_stop_event,
                   scroll_region_set, term_region, resize_lock, running,
                   leave, last_event, farewells, resizes, otherVars>>

\* render_status_bar: the size query (80 columns when it fails), the text,
\* and the writes of cursor-save, jump and clear
RenderBegin(t, size_ok) ==
    /\ At(t, "render_status_bar", "begin")
    /\ stack' = [stack EXCEPT ![t] =
           [@ EXCEPT ![Len(@)] =
               Frame("render_status_bar", "text",
                     IF size_ok THEN "columns" ELSE "80")]]
    /\ UNCHANGED <<started, status_bar_thread, status_bar_stop_event,
                   scroll_region_set, term_region, resize_lock, running,
                   leave, last_event, farewells, resizes, otherVars>>

\* render_status_bar: the write of bar_text
RenderText(t) ==
    /\ At(t, "render_status_bar", "text")
    /\ stack' = [stack EXCEPT ![t] = Goto(@, "restore")]
    /\ UNCHANGED <<started, status_bar_thread, status_bar_stop_event,
                   scroll_region_set, term_region, resize_lock, running,
                   leave, last_event, farewells, resizes, otherVars>>

\* render_status_bar: the writes of column and cursor-restore, the flush,
\* and the return
RenderRestore(t) ==
    /\ At(t, "render_status_bar", "restore")
    /\ stack' = [stack EXCEPT ![t] = Pop(@)]
    /\ UNCHANGED <<started, status_bar_thread, status_bar_stop_event,
                   scroll_region_set, term_region, resize_lock, running,
                   leave, last_event, farewells, resizes, otherVars>>

\* render_status_bar: a step inside the try raises
RenderFail(t) ==
    /\ stack[t] # <<>>
    /\ Top(t).fn = "render_status_bar"
    /\ Top(t).pc \in {"begin", "text", "restore"}
    /\ stack' = [stack EXCEPT ![t] = AfterRenderError(@)]
    /\ UNCHANGED <<started, status_bar_thread, status_bar_stop_event,
                   scroll_region_set, term_region, resize_lock, running,
                   leave, last_event, farewells, resizes, otherVars>>

\* render_status_bar: except Exception: pass, and the return
RenderSkip(t) ==
    /\ At(t, "render_status_bar", "except")
    /\ stack' = [stack EXCEPT ![t] = Pop(@)]
    /\ UNCHANGED <<started, status_bar_thread, status_bar_stop_event,
                   scroll_region_set, term_region, resize_lock, running,
                   leave, last_event, farewells, resizes, otherVars>>

\* status_bar_loop: the while test, then the call of render_status_bar
BarCheck(b) ==
    /\ At(b, "status_bar_loop", "check")
    /\ stack' = [stack EXCEPT ![b] =
           IF status_bar_stop_event THEN <<>>
           ELSE Call(@, "wait", RenderFrame)]
    /\ UNCHANGED <<started, status_bar_thread, status_bar_stop_event,
                   scroll_region_set, term_region, resize_lock, running,
                   leave, last_event, farewells, resizes, otherVars>>

\* status_bar_loop: stop_event.wait(2) comes back, set or timed out
BarWait(b) ==
    /\ At(b, "status_bar_loop", "wait")
    /\ stack' = [stack EXCEPT ![b] = AfterWait(@, status_bar_stop_event)]
    /\ UNCHANGED <<started, status_bar_thread, status_bar_stop_event,
                   scroll_region_set, term_region, resize_lock, running,
                   leave, last_event, farewells, resizes, otherVars>>

\* run(): display_banner, then the loop is entered
RunBanner ==
    /\ At(Main, "run", "banner")
    /\ stack' = [stack EXCEPT ![Main] = Goto(@, "input")]
    /\ UNCHANGED <<started, status_bar_thread, status_bar_stop_event,
                   scroll_region_set, term_region, resize_lock, running,
                   leave, last_event, farewells, resizes, otherVars>>

\* run(): input() returns a line and execute_command looks it up
ReadLine(line) ==
    /\ At(Main, "run", "input")
    /\ running
    /\ stack' = [stack EXCEPT ![Main] =
           [@ EXCEPT ![Len(@)] = Frame("run", "execute", line)]]
    /\ last_event' = "line"
    /\ UNCHANGED <<started, status_bar_thread, status_bar_stop_event,
                   scroll_region_set, term_region, resize_lock, running,
                   leave, farewells, resizes, otherVars>>

\* run(): input() raises KeyboardInterrupt; the hint is printed
ReadInterrupt ==
    /\ At(Main, "run", "input")
    /\ running
    /\ last_event' = "interrupt"
    /\ UNCHANGED <<stack, started, status_bar_thread, status_bar_stop_event,
                   scroll_region_set, term_region, resize_lock, running,
                   leave, farewells, resizes, otherVars>>

\* run(): input() raises EOFError; "Goodbye!" and break
ReadEOF ==
    /\ At(Main, "run", "input")
    /\ running
    /\ last_event' = "eof"
    /\ farewells' = farewells + 1
    /\ leave' = "eof"
    /\ stack' = [stack EXCEPT ![Main] = Goto(@, "finally")]
    /\ UNCHANGED <<started, status_bar_thread, status_bar_stop_event,
                   scroll_region_set, term_region, resize_lock, running,
                   resizes, otherVars>>

\* cmd_exit: "Goodbye!", running = False; the while test ends the loop
ExecExit ==
    /\ At(Main, "run", "execute")
    /\ Top(Main).arg = "exit"
    /\ farewells' = farewells + 1
    /\ running' = FALSE
    /\ leave' = "exit"
    /\ stack' = [stack EXCEPT ![Main] = Goto(@, "finally")]
    /\ UNCHANGED <<started, status_bar_thread, status_bar_stop_event,
                   scroll_region_set, term_region, resize_lock, last_event,
                   resizes, otherVars>>

\* cmd_quit: sys.exit(0); SystemExit passes both except clauses
ExecQuit ==
    /\ At(Main, "run", "execute")
    /\ Top(Main).arg = "quit"
    /\ leave' = "quit"
    /\ stack' = [stack EXCEPT ![Main] = Goto(@, "finally")]
    /\ UNCHANGED <<started, status_bar_thread, status_bar_stop_event,
                   scroll_region_set, term_region, resize_lock, running,
                   last_event, farewells, resizes, otherVars>>

\* cmd_statusbar(['color', c]): the call of _render_status_bar
ExecStatusbar ==
    /\ At(Main, "run", "execute")
    /\ Top(Main).arg = "statusbar"
    /\ stack' = [stack EXCEPT ![Main] = Call(@, "input", RenderFrame)]
    /\ UNCHANGED <<started, status_bar_thread, status_bar_stop_event,
                   scroll_region_set, term_region, resize_lock, running,
                   leave, last_event, farewells, resizes, otherVars>>

\* execute_command: self.commands[cmd](args) for a plugin's handler; what
\* it raises reaches the except clauses of run()
ExecHandler(outcome) ==
    /\ At(Main, "run", "execute")
    /\ Top(Main).arg = "hello"
    /\ CASE outcome = "returns" ->
              /\ stack' = [stack EXCEPT ![Main] = Goto(@, "input")]
              /\ UNCHANGED <<leave, last_event>>
         [] outcome = "interrupted" ->
              /\ stack' = [stack EXCEPT ![Main] = Goto(@, "input")]
              /\ last_event' = "interrupt"
              /\ UNCHANGED leave
         [] OTHER ->
              /\ stack' = [stack EXCEPT ![Main] = Goto(@, "finally")]
              /\ leave' = "error"
              /\ UNCHANGED last_event
    /\ UNCHANGED <<started, status_bar_thread, status_bar_stop_event,
                   scroll_region_set, term_region, resize_lock, running,
                   farewells, resizes, otherVars>>

\* cmd_plugins(['reload']) is called
ExecPlugins ==
    /\ At(Main, "run", "execute")
    /\ Top(Main).arg = "plugins"
    /\ stack' = [stack EXCEPT ![Main] =
           Call(@, "input", Frame("cmd_plugins", "unload", "-"))]
    /\ UNCHANGED <<started, status_bar_thread, status_bar_stop_event,
                   scroll_region_set, term_region, resize_lock, running,
                   leave, last_event, farewells, resizes, otherVars>>

\* cmd_plugins: unload_plugin_commands, self.aliases.clear(), load_aliases
PluginsUnload ==
    /\ At(Main, "cmd_plugins", "unload")
    /\ commands' = unload_plugin_commands(commands)
    /\ plugin_command_names' = {}
    /\ prev_commands' = commands
    /\ aliases' = load_aliases(NoAliases, aliases_file)
    /\ stack' = [stack EXCEPT ![Main] = AfterUnload(@)]
    /\ UNCHANGED <<phase, plugin_dir, quarantine_dir, failed_count, log,
                   executed, edits, loaded_dir, prev_dir, astVars,
                   quarantineVars, started, status_bar_thread,
                   status_bar_stop_event, scroll_region_set, term_region,
                   resize_lock, running, leave, last_event, farewells,
                   resizes, aliases_file, status_bar_color, config_file,
                   dispatched, barVars>>

\* cmd_plugins: load_plugins, and the return
PluginsLoad ==
    /\ At(Main, "cmd_plugins", "load")
    /\ Loaded(load_plugins(commands, plugin_command_names, log, executed,
                           plugin_dir))
    /\ stack' = [stack EXCEPT ![Main] = Pop(@)]
    /\ UNCHANGED <<phase, plugin_dir, quarantine_dir, edits, prev_commands,
                   astVars, quarantineVars, started, status_bar_thread,
                   status_bar_stop_event, scroll_region_set, term_region,
                   resize_lock, running, leave, last_event, farewells,
                   resizes, shellVars, barVars>>

\* _check_for_updates: the version is fetched and compared, a notice may be
\* printed; every Exception is swallowed; the thread ends
UpdateCheck ==
    /\ At(Updater, "check_for_updates", "fetch")
    /\ stack' = [stack EXCEPT ![Updater] = <<>>]
    /\ UNCHANGED <<started, status_bar_thread, status_bar_stop_event,
                   scroll_region_set, term_region, resize_lock, running,
                   leave, last_event, farewells, resizes, otherVars>>

\* run(): the finally clause calls shutdown_status_bar
RunFinally ==
    /\ At(Main, "run", "finally")
    /\ stack' = [stack EXCEPT ![Main] =
           Call(@, "return", Frame("shutdown_status_bar", "set", "-"))]
    /\ UNCHANGED <<started, status_bar_thread, status_bar_stop_event,
                   scroll_region_set, term_region, resize_lock, running,
                   leave, last_event, farewells, resizes, otherVars>>

\* shutdown_status_bar: status_bar_stop_event.set()
ShutdownSetEvent ==
    /\ At(Main, "shutdown_status_bar", "set")
    /\ status_bar_stop_event' = TRUE
    /\ stack' = [stack EXCEPT ![Main] = Goto(@, "join")]
    /\ UNCHANGED <<started, status_bar_thread, scroll_region_set, term_region,
                   resize_lock, running, leave, last_event, farewells,
                   resizes, otherVars>>

\* shutdown_status_bar: join(timeout=0.5) comes back, the thread finished
\* or not; status_bar_thread = None
ShutdownJoin ==
    /\ At(Main, "shutdown_status_bar", "join")
    /\ status_bar_thread' = 0
    /\ stack' = [stack EXCEPT ![Main] = Goto(@, "reset")]
    /\ UNCHANGED <<started, status_bar_stop_event, scroll_region_set,
                   term_region, resize_lock, running, leave, last_event,
                   farewells, resizes, otherVars>>

\* shutdown_status_bar: reset_scroll_region, and the return
ShutdownReset ==
    /\ At(Main, "shutdown_status_bar", "reset")
    /\ LET r == reset_scroll_region(term_region, scroll_region_set)
       IN  /\ term_region' = r.term
           /\ scroll_region_set' = r.flag
    /\ stack' = [stack EXCEPT ![Main] = Pop(@)]
    /\ last_event' = "shutdown"
    /\ UNCHANGED <<started, status_bar_thread, status_bar_stop_event,
                   resize_lock, running, leave, farewells, resizes,
                   otherVars>>

\* run() returns, or hands on what was raised
RunReturn ==
    /\ At(Main, "run", "return")
    /\ stack' = [stack EXCEPT ![Main] = <<>>]
    /\ UNCHANGED <<started, status_bar_thread, status_bar_stop_event,
                   scroll_region_set, term_region, resize_lock, running,
                   leave, last_event, farewells, resizes, otherVars>>

\* SIGWINCH reaches the main thread once run() has installed the handler
Signalled ==
    /\ stack[Main] # <<>>
    /\ ~At(Main, "run", "start")
    /\ resizes < MaxResizes
    /\ resizes' = resizes + 1

\* handle_resize: the lock is free; acquired, the sleep, the section begins
ResizeEnter ==
    /\ Signalled
    /\ TryAcquire(resize_lock)
    /\ resize_lock' = TRUE
    /\ stack' = [stack EXCEPT ![Main] =
           Append(@, Frame("handle_resize", "reset", "-"))]
    /\ last_event' = "resize"
    /\ UNCHANGED <<started, status_bar_thread, status_bar_stop_event,
                   scroll_region_set, term_region, running, leave,
                   farewells, otherVars>>

\* handle_resize: the lock is held; return
ResizeDrop ==
    /\ Signalled
    /\ ~TryAcquire(resize_lock)
    /\ last_event' = "resize dropped"
    /\ UNCHANGED <<stack, started, status_bar_thread, status_bar_stop_event,
                   scroll_region_set, term_region, resize_lock, running,
                   leave, farewells, otherVars>>

\* handle_resize: reset_scroll_region
ResizeReset ==
    /\ At(Main, "handle_resize", "reset")
    /\ LET r == reset_scroll_region(term_region, scroll_region_set)
       IN  /\ term_region' = r.term
           /\ scroll_region_set' = r.flag
    /\ stack' = [stack EXCEPT ![Main] = Goto(@, "set")]
    /\ UNCHANGED <<started, status_bar_thread, status_bar_stop_event,
                   resize_lock, running, leave, last_event, farewells,
                   resizes, otherVars>>

\* handle_resize: reset_scroll_region raises, before or after its ESC[r
\* reached the terminal; scroll_region_set keeps its value
ResizeFail(written) ==
    /\ At(Main, "handle_resize", "reset")
    /\ scroll_region_set
    /\ term_region' = IF written THEN "full" ELSE term_region
    /\ stack' = [stack EXCEPT ![Main] = AfterResizeError(@)]
    /\ last_event' = "resize error"
    /\ UNCHANGED <<started, status_bar_thread, status_bar_stop_event,
                   scroll_region_set, resize_lock, running, leave, farewells,
                   resizes, otherVars>>

\* handle_resize: set_scroll_region
ResizeSet(outcome) ==
    /\ At(Main, "handle_resize", "set")
    /\ LET r == set_scroll_region(term_region, outcome)
       IN  /\ term_region' = r.term
           /\ scroll_region_set' = r.flag
    /\ stack' = [stack EXCEPT ![Main] = Goto(@, "clear")]
    /\ UNCHANGED <<started, status_bar_thread, status_bar_stop_event,
                   resize_lock, running, leave, last_event, farewells,
                   resizes, otherVars>>

\* handle_resize: the first row is cleared, render_status_bar is called
ResizeClear ==
    /\ At(Main, "handle_resize", "clear")
    /\ stack' = [stack EXCEPT ![Main] = Call(@, "release", RenderFrame)]
    /\ UNCHANGED <<started, status_bar_thread, status_bar_stop_event,
                   scroll_region_set, term_region, resize_lock, running,
                   leave, last_event, farewells, resizes, otherVars>>

\* handle_resize: the cursor goes to the last line; finally: release
ResizeRelease ==
    /\ At(Main, "handle_resize", "release")
    /\ resize_lock' = FALSE
    /\ stack' = [stack EXCEPT ![Main] = Pop(@)]
    /\ UNCHANGED <<started, status_bar_thread, status_bar_stop_event,
                   scroll_region_set, term_region, running, leave,
                   last_event, farewells, resizes, otherVars>>

\* the terminal is constructed over RunDir and main() is about to call
\* run(); updating is the stack of the update check thread __init__ started
Constructed(updating) ==
    /\ phase = "idle"
    /\ plugin_dir = RunDir
    /\ quarantine_dir = {}
    /\ LET st == load_plugins(BuiltinCommands, {}, {}, {}, RunDir)
       IN  /\ commands = st.commands
           /\ plugin_command_names = st.names
           /\ failed_count = st.failed_count
           /\ log = st.log
           /\ executed = st.executed
    /\ edits = 0
    /\ loaded_dir = RunDir
    /\ prev_dir = NoDir
    /\ prev_commands = NoCmds
    /\ src = NoSource
    /\ verdict = "none"
    /\ QuarantineIdle
    /\ stack = [t \in Threads |->
                   IF t = Main THEN <<Frame("run", "start", "-")>>
                   ELSE IF t = Updater THEN updating
                   ELSE <<>>]
    /\ started = {}
    /\ status_bar_thread = 0
    /\ status_bar_stop_event = FALSE
    /\ scroll_region_set = FALSE
    /\ term_region = "full"
    /\ resize_lock = FALSE
    /\ running = TRUE
    /\ leave = "none"
    /\ last_event = "none"
    /\ farewells = 0
    /\ resizes = 0
    /\ ShellIdle
    /\ BarIdle

\* the update check has already ended
InitRun == Constructed(<<>>)

NextRun ==
    \/ RunStart
    \/ \E o \in RegionOutcomes : InitSetScrollRegion(o)
    \/ \E starts \in BOOLEAN : InitStartThread(starts)
    \/ InitReturn
    \/ \E t \in Threads, size_ok \in BOOLEAN : RenderBegin(t, size_ok)
    \/ \E t \in Threads : RenderText(t)
    \/ \E t \in Threads : RenderRestore(t)
    \/ \E t \in Threads : RenderFail(t)
    \/ \E t \in Threads : RenderSkip(t)
    \/ \E b \in BarThreads : BarCheck(b)
    \/ \E b \in BarThreads : BarWait(b)
    \/ RunBanner
    \/ \E line \in Lines : ReadLine(line)
    \/ ReadInterrupt
    \/ ReadEOF
    \/ ExecExit
    \/ ExecQuit
    \/ ExecStatusbar
    \/ \E o \in HandlerOutcomes : ExecHandler(o)
    \/ RunFinally
    \/ ShutdownSetEvent
    \/ ShutdownJoin
    \/ ShutdownReset
    \/ RunReturn
    \/ ResizeEnter
    \/ ResizeDrop
    \/ ResizeReset
    \/ \E written \in BOOLEAN : ResizeFail(written)
    \/ \E o \in RegionOutcomes : ResizeSet(o)
    \/ ResizeClear
    \/ ResizeRelease

SpecRun == InitRun /\ [][NextRun]_vars

(* ------------- initialize_status_bar and shutdown_status_bar ----------- *)

\* a caller of the two methods, between two calls
CallerFrame == Frame("caller", "idle", "-")

\* the caller calls initialize_status_bar
CallInitialize ==
    /\ At(Main, "caller", "idle")
    /\ stack' = [stack EXCEPT ![Main] =
           Call(@, "idle",
                Frame("initialize_status_bar", "set_scroll_region", "-"))]
    /\ last_event' = "initialize"
    /\ UNCHANGED <<started, status_bar_thread, status_bar_stop_event,
                   scroll_region_set, term_region, resize_lock, running,
                   leave, farewells, resizes, otherVars>>

\* the caller calls shutdown_status_bar
CallShutdown ==
    /\ At(Main, "caller", "idle")
    /\ stack' = [stack EXCEPT ![Main] =
           Call(@, "idle", Frame("shutdown_status_bar", "set", "-"))]
    /\ UNCHANGED <<started, status_bar_thread, status_bar_stop_event,
                   scroll_region_set, term_region, resize_lock, running,
                   leave, last_event, farewells, resizes, otherVars>>

InitApi ==
    /\ phase = "boot"
    /\ plugin_dir = [f \in PluginFiles |-> Absent]
    /\ quarantine_dir = {}
    /\ commands = NoCmds
    /\ plugin_command_names = {}
    /\ failed_count = 0
    /\ log = {}
    /\ executed = {}
    /\ edits = 0
    /\ loaded_dir = NoDir
    /\ prev_dir = NoDir
    /\ prev_commands = NoCmds
    /\ src = NoSource
    /\ verdict = "none"
    /\ QuarantineIdle
    /\ stack = [t \in Threads |-> IF t = Main THEN <<CallerFrame>> ELSE <<>>]
    /\ started = {}
    /\ status_bar_thread = 0
    /\ status_bar_stop_event = FALSE
    /\ scroll_region_set = FALSE
    /\ term_region = "full"
    /\ resize_lock = FALSE
    /\ running = TRUE
    /\ leave = "none"
    /\ last_event = "none"
    /\ farewells = 0
    /\ resizes = 0
    /\ ShellIdle
    /\ BarIdle

\* one step of the thread that runs status_bar_loop
BarStep(b) ==
    \/ BarCheck(b)
    \/ BarWait(b)
    \/ \E size_ok \in BOOLEAN : RenderBegin(b, size_ok)
    \/ RenderText(b)
    \/ RenderRestore(b)
    \/ RenderFail(b)
    \/ RenderSkip(b)

\* any sequence of calls of the two methods, on a terminal that takes the
\* scroll region sequences, with the status bar threads they start
NextApi ==
    \/ CallInitialize
    \/ CallShutdown
    \/ InitSetScrollRegion("written")
    \/ InitStartThread(TRUE)
    \/ InitReturn
    \/ RenderBegin(Main, TRUE)
    \/ RenderText(Main)
    \/ RenderRestore(Main)
    \/ ShutdownSetEvent
    \/ ShutdownJoin
    \/ ShutdownReset
    \/ \E b \in BarThreads : BarStep(b)

SpecApi == InitApi /\ [][NextApi]_vars

\* the scheduler lets every live status bar thread take its next step
SpecApiFair == SpecApi /\ \A b \in BarThreads : WF_vars(BarStep(b))

\* the lines of a session that reloads its plugins
ReloadLines == {"plugins", "hello", "exit"}

\* the update check is still running when run() starts
InitReload == Constructed(<<Frame("check_for_updates", "fetch", "-")>>)

\* a session on a terminal whose writes succeed: the status bar thread, the
\* update check and the resize handler run while plugins are reloaded
NextReload ==
    \/ RunStart
    \/ InitSetScrollRegion("written")
    \/ InitStartThread(TRUE)
    \/ InitReturn
    \/ \E t \in Threads : RenderBegin(t, TRUE)
    \/ \E t \in Threads : RenderText(t)
    \/ \E t \in Threads : RenderRestore(t)
    \/ \E b \in BarThreads : BarCheck(b)
    \/ \E b \in BarThreads : BarWait(b)
    \/ RunBanner
    \/ \E line \in ReloadLines : ReadLine(line)
    \/ ExecExit
    \/ ExecHandler("returns")
    \/ ExecPlugins
    \/ PluginsUnload
    \/ PluginsLoad
    \/ UpdateCheck
    \/ RunFinally
    \/ ShutdownSetEvent
    \/ ShutdownJoin
    \/ ShutdownReset
    \/ RunReturn
    \/ ResizeEnter
    \/ ResizeDrop
    \/ ResizeReset
    \/ ResizeSet("written")
    \/ ResizeClear
    \/ ResizeRelease

SpecReload == InitReload /\ [][NextReload]_vars

(* ---------------------- terminal.py: execute_command ------------------- *)

kw_alias == <<"a", "l", "i", "a", "s">>

kw_unalias == <<"u", "n", "a", "l", "i", "a", "s">>

kw_statusbar == <<"s", "t", "a", "t", "u", "s", "b", "a", "r">>

kw_plugins == <<"p", "l", "u", "g", "i", "n", "s">>

kw_reload == <<"r", "e", "l", "o", "a", "d">>

kw_color == <<"c", "o", "l", "o", "r">>

kw_ls == <<"l", "s">>

\* the handlers the constructor registers, each under its lower-case name
ShellBuiltins ==
    [n \in {kw_alias, kw_unalias, kw_statusbar, kw_plugins, kw_ls} |->
        Handler(0, n, TRUE)]

\* the key sets of the dictionaries the plugins of the directory return,
\* each key as the plugin wrote it
PluginKeySets == {{}, {<<"h", "i">>}, {<<"H", "i">>}}

\* self.commands.update(plugin_commands) for a dictionary with these keys
RegisterKeys(cmds, keys) ==
    [n \in DOMAIN cmds \cup keys |->
        IF n \in keys THEN Handler(1, n, TRUE) ELSE cmds[n]]

\* _execute_system_command: the line goes to the shell
SystemCommand == Handler(-1, <<>>, TRUE)

\* cmd = parts[0].lower(); self.commands[cmd] if cmd in self.commands
lookup(cmds, word) ==
    IF lower(word) \in DOMAIN cmds THEN cmds[lower(word)] ELSE SystemCommand

\* execute_command up to the call: expand_aliases once, shlex.split, lookup
Resolve(line) ==
    LET expanded == expand_aliases(aliases, line)
        parts == split(expanded)
    IN  [line |-> line, expanded |-> expanded, cmd |-> lower(parts[1]),
         args |-> Tail(parts), handler |-> lookup(commands, parts[1])]

\* a line read at the prompt that is not blank
Typed(line) == phase = "idle" /\ strip(line) # <<>>

\* what execute_command did with the line
Dispatched(r) ==
    dispatched' = [line |-> r.line, expanded |-> r.expanded, cmd |-> r.cmd,
                   handler |-> r.handler]

\* the lines typed at the prompt
ShellLines ==
    {join(<<kw_alias, <<"g", "=", "l", "s">>>>),
     join(<<kw_alias, <<"g", "=", "g">>, <<"-", "l">>>>),
     join(<<kw_alias, <<"#", "g", "=", "l", "s">>>>),
     join(<<kw_alias, <<"e", "=", "a", "=", "b">>>>),
     join(<<kw_unalias, <<"g">>>>),
     join(<<kw_statusbar, kw_color, <<"R", "E", "D">>>>),
     join(<<kw_statusbar, kw_color, <<"p", "i", "n", "k">>>>),
     join(<<kw_plugins, kw_reload>>),
     <<"g">>,
     <<" ", "g", " ", " ", "-", "a", " ">>,
     <<"L", "s">>,
     <<"H", "i">>}

\* an aliases file written by hand
HandAliases ==
    <<<<" ", "g", " ", "=", " ", "l", "s", " ">>, <<"#", "x", "=", "y">>,
      <<"n", "o", "n", "e">>>>

\* the user's files before the session: the aliases file (<<>> if
\* missing) and the preferences file
Homes ==
    {[aliases_file |-> <<>>, config_file |-> NoConfig],
     [aliases_file |-> <<>>, config_file |-> CorruptConfig],
     [aliases_file |-> HandAliases,
      config_file |-> JsonObject([k \in {"status_bar_color"} |-> red])],
     [aliases_file |-> HandAliases,
      config_file |->
          JsonObject([k \in {"status_bar_color", "distro"} |->
                         IF k = "distro" THEN <<"d", "e", "b">>
                         ELSE <<"p", "i", "n", "k">>])]}

\* ZDTTTerminal.__init__ with a plugin directory whose plugins return keys
ShellConstruct(keys) ==
    /\ phase = "boot"
    /\ phase' = "idle"
    /\ aliases' = load_aliases(NoAliases, aliases_file)
    /\ status_bar_color' = load_preferences(blue, config_file)
    /\ commands' = RegisterKeys(ShellBuiltins, keys)
    /\ plugin_command_names' = keys
    /\ UNCHANGED <<plugin_dir, quarantine_dir, failed_count, log, executed,
                   edits, loaded_dir, prev_dir, prev_commands, astVars,
                   quarantineVars, runVars, aliases_file, config_file,
                   dispatched, barVars>>

shellRest ==
    <<phase, plugin_dir, quarantine_dir, failed_count, log, executed, edits,
      loaded_dir, prev_dir, prev_commands, astVars, quarantineVars, runVars,
      barVars>>

\* cmd_alias(args): "name=command" is stored and the file rewritten
ShellAlias(line) ==
    /\ Typed(line)
    /\ LET r == Resolve(line)
           alias_def == join(r.args)
           def == SplitEquals(alias_def)
       IN  /\ r.handler = ShellBuiltins[kw_alias]
           /\ Dispatched(r)
           /\ IF /\ r.args # <<>>
                 /\ HasEquals(alias_def)
                 /\ def.name # <<>>
                 /\ def.command # <<>>
              THEN /\ aliases' = Put(aliases, def.name, def.command)
                   /\ aliases_file' = save_aliases(aliases')
              ELSE UNCHANGED <<aliases, aliases_file>>
    /\ UNCHANGED <<commands, plugin_command_names, status_bar_color,
                   config_file, shellRest>>

\* cmd_unalias(args): a known name is deleted and the file rewritten
ShellUnalias(line) ==
    /\ Typed(line)
    /\ LET r == Resolve(line)
       IN  /\ r.handler = ShellBuiltins[kw_unalias]
           /\ Dispatched(r)
           /\ IF r.args # <<>> /\ r.args[1] \in DOMAIN aliases
              THEN /\ aliases' = [n \in DOMAIN aliases \ {r.args[1]} |->
                                    aliases[n]]
                   /\ aliases_file' = save_aliases(aliases')
              ELSE UNCHANGED <<aliases, aliases_file>>
    /\ UNCHANGED <<commands, plugin_command_names, status_bar_color,
                   config_file, shellRest>>

\* cmd_statusbar(args): "color <name>" with a name of STATUS_BAR_COLORS
ShellStatusbar(line) ==
    /\ Typed(line)
    /\ LET r == Resolve(line)
       IN  /\ r.handler = ShellBuiltins[kw_statusbar]
           /\ Dispatched(r)
           /\ IF /\ Len(r.args) >= 2
                 /\ lower(r.args[1]) = kw_color
                 /\ lower(r.args[2]) \in STATUS_BAR_COLORS
              THEN /\ status_bar_color' = lower(r.args[2])
                   /\ config_file' =
                          save_preferences(status_bar_color', config_file)
              ELSE UNCHANGED <<status_bar_color, config_file>>
    /\ UNCHANGED <<commands, plugin_command_names, aliases, aliases_file,
                   shellRest>>

\* cmd_plugins(['reload']) over an unchanged plugin directory: the plugin
\* names are popped, the aliases cleared and read again, the plugins
\* register the same keys
ShellPlugins(line) ==
    /\ Typed(line)
    /\ LET r == Resolve(line)
       IN  /\ r.handler = ShellBuiltins[kw_plugins]
           /\ Dispatched(r)
           /\ IF r.args # <<>> /\ r.args[1] = kw_reload
              THEN /\ aliases' = load_aliases(NoAliases, aliases_file)
                   /\ commands' =
                          RegisterKeys(unload_plugin_commands(commands),
                                       plugin_command_names)
              ELSE UNCHANGED <<aliases, commands>>
    /\ UNCHANGED <<plugin_command_names, aliases_file, status_bar_color,
                   config_file, shellRest>>

\* any other registered handler, or the shell: nothing of this state changes
ShellOther(line) ==
    /\ Typed(line)
    /\ LET r == Resolve(line)
       IN  /\ r.handler \notin
                  {ShellBuiltins[n] : n \in {kw_alias, kw_unalias,
                                             kw_statusbar, kw_plugins}}
           /\ Dispatched(r)
    /\ UNCHANGED <<commands, plugin_command_names, aliases, aliases_file,
                   status_bar_color, config_file, shellRest>>

InitCmd ==
    /\ phase = "boot"
    /\ plugin_dir = [f \in PluginFiles |-> Absent]
    /\ quarantine_dir = {}
    /\ commands = NoCmds
    /\ plugin_command_names = {}
    /\ failed_count = 0
    /\ log = {}
    /\ executed = {}
    /\ edits = 0
    /\ loaded_dir = NoDir
    /\ prev_dir = NoDir
    /\ prev_commands = NoCmds
    /\ src = NoSource
    /\ verdict = "none"
    /\ QuarantineIdle
    /\ RunIdle
    /\ BarIdle
    /\ aliases = NoAliases
    /\ \E home \in Homes :
           /\ aliases_file = home.aliases_file
           /\ config_file = home.config_file
    /\ status_bar_color = blue
    /\ dispatched = NotDispatched

NextCmd ==
    \/ \E keys \in PluginKeySets : ShellConstruct(keys)
    \/ \E line \in ShellLines : ShellAlias(line)
    \/ \E line \in ShellLines : ShellUnalias(line)
    \/ \E line \in ShellLines : ShellStatusbar(line)
    \/ \E line \in ShellLines : ShellPlugins(line)
    \/ \E line \in ShellLines : ShellOther(line)

SpecCmd == InitCmd /\ [][NextCmd]_vars

(* ------------------ terminal.py: _build_status_bar_text ---------------- *)

\* The text is a sequence of characters of five kinds: " " a blank, "v"
\* another printing character, "E" the ESC that opens a control sequence,
\* "c" a character inside one, "m" the letter that ends one.

\* n printing characters
Text(n) == [i \in 1..n |-> "v"]

\* n blanks
Blanks(n) == [i \in 1..n |-> " "]

\* an SGR sequence with n parameter digits: ESC [ digits m
Sgr(n) == <<"E", "c">> \o [i \in 1..n |-> "c"] \o <<"m">>

\* "\033[0m", "\033[1m", "\033[2m"
COLOR_RESET == Sgr(1)

COLOR_BOLD == Sgr(1)

COLOR_DIM == Sgr(1)

\* "\033[97m"
COLOR_BRIGHT_WHITE == Sgr(2)

\* "ZDTT by ZaneDev"
plain_left == Text(4) \o Blanks(1) \o Text(2) \o Blanks(1) \o Text(7)

\* BOLD ZDTT RESET " by " BOLD ZaneDev RESET
left_text ==
    COLOR_BOLD \o Text(4) \o COLOR_RESET \o Blanks(1) \o Text(2) \o Blanks(1)
    \o COLOR_BOLD \o Text(7) \o COLOR_RESET

\* strftime("%I:%M %p"), as in "09:41 AM"
time_str == Text(5) \o Blanks(1) \o Text(2)

\* DIM, the bar character, RESET
separator == COLOR_DIM \o Text(1) \o COLOR_RESET

\* f" {left_text} {' ' * padding}{separator} {BRIGHT_WHITE}{time_str}{RESET} "
bar_content(padding) ==
    Blanks(1) \o left_text \o Blanks(1) \o Blanks(padding) \o separator
    \o Blanks(1) \o COLOR_BRIGHT_WHITE \o time_str \o COLOR_RESET \o Blanks(1)

\* f" ZDTT by ZaneDev | {time_str} "
simple_bar ==
    Blanks(1) \o plain_left \o Blanks(1) \o Text(1) \o Blanks(1) \o time_str
    \o Blanks(1)

Max(a, b) == IF a > b THEN a ELSE b

\* s[:n]
Prefix(s, n) == SubSeq(s, 1, IF n < Len(s) THEN n ELSE Len(s))

\* s.ljust(n)
ljust(s, n) == IF Len(s) >= n THEN s ELSE s \o Blanks(n - Len(s))

\* the width the bar is built for: the columns, at least 1, or the
\* fallback when the size query raised (columns = -1)
BarWidth(cols) ==
    IF cols = -1 THEN Max(1, Len(plain_left) + Len(time_str) + 6)
    ELSE Max(1, cols)

\* _build_status_bar_text with the background and foreground of the palette
\* (both "\033[NNm")
build_status_bar_text(cols) ==
    LET width == BarWidth(cols)
        min_content_width == Len(plain_left) + Len(time_str) + 5
        padding == IF width < min_content_width THEN 0
                   ELSE width - min_content_width
        actual_display_len == Len(plain_left) + Len(time_str) + padding + 5
        content ==
            IF actual_display_len < width
            THEN rstrip(bar_content(padding))
                 \o Blanks(width - actual_display_len)
            ELSE IF actual_display_len > width
                 THEN IF width < Len(plain_left) + 10
                      THEN Prefix(bar_content(0), width)
                      ELSE bar_content(Max(0, width - min_content_width))
            ELSE bar_content(padding)
        result == Sgr(2) \o Sgr(2) \o content \o COLOR_RESET
    IN  IF Len(result) > width * 2
        THEN Sgr(2) \o Sgr(2)
             \o (IF Len(simple_bar) > width THEN Prefix(simple_bar, width)
                 ELSE ljust(simple_bar, width))
             \o COLOR_RESET
        ELSE result

\* the terminal window takes some width, or the size query starts to fail;
\* the text built for the old width is gone
SetColumns(w) ==
    /\ columns # w
    /\ columns' = w
    /\ bar_text' = <<>>
    /\ UNCHANGED <<loaderVars, astVars, quarantineVars, runVars,
                   shellVars>>

\* _render_status_bar asks for the text
BuildBar ==
    /\ bar_text' = build_status_bar_text(columns)
    /\ UNCHANGED <<columns, loaderVars, astVars, quarantineVars, runVars,
                   shellVars>>

InitBar ==
    /\ phase = "boot"
    /\ plugin_dir = [f \in PluginFiles |-> Absent]
    /\ quarantine_dir = {}
    /\ commands = NoCmds
    /\ plugin_command_names = {}
    /\ failed_count = 0
    /\ log = {}
    /\ executed = {}
    /\ edits = 0
    /\ loaded_dir = NoDir
    /\ prev_dir = NoDir
    /\ prev_commands = NoCmds
    /\ src = NoSource
    /\ verdict = "none"
    /\ QuarantineIdle
    /\ RunIdle
    /\ ShellIdle
    /\ columns = MaxWidth
    /\ bar_text = <<>>

NextBar ==
    \/ \E w \in -1..MaxWidth : SetColumns(w)
    \/ BuildBar

SpecBar == InitBar /\ [][NextBar]_vars

(* ------------------------------ properties ----------------------------- *)

\* the names the factory of content c hands to the loader
ReturnedNames(c) ==
    IF ~Catalog[c].raises /\ Catalog[c].factory = "dict"
    THEN DOMAIN Catalog[c].cmds ELSE {}

\* the load of content c ends in the except branch
FailsToLoad(c) == Catalog[c].raises \/ Catalog[c].factory # "dict"

\* the registry entries whose handler came from file f
FromFile(f) == {n \in DOMAIN commands : commands[n].origin = f}

\* load_plugins keeps no trust store and asks the operator nothing
TrustStore == {}

OperatorConfirmed == {}

\* C1: no protected name is ever mapped to a handler that came from an
\* extension.
C1_ProtectedNeverFromExtension ==
    \A n \in PROTECTED_COMMANDS \cap DOMAIN commands : commands[n].origin = 0

\* C2: an extension whose factory returns a protected name has none of its
\* commands registered after load, its file is gone from the plugin
\* directory, and it has at most one quarantine entry.
C2_ProtectedExtensionRejected ==
    phase = "idle" =>
        \A f \in PluginFiles :
            (/\ loaded_dir[f] \in Contents
             /\ ReturnedNames(loaded_dir[f]) \cap PROTECTED_COMMANDS # {})
            => /\ FromFile(f) = {}
               /\ plugin_dir[f] # loaded_dir[f]
               /\ Cardinality({q \in quarantine_dir : q = f}) <= 1

\* C3: after a load, every extension the loader processed has either all
\* the names its factory returned in the registry, or none of them (and
\* then its file is in quarantine); never only some.
C3_AllOrNothing ==
    phase = "idle" =>
        \A f \in PluginFiles :
            loaded_dir[f] \in Contents =>
                \/ ReturnedNames(loaded_dir[f]) \subseteq DOMAIN commands
                \/ /\ ReturnedNames(loaded_dir[f]) \cap DOMAIN commands = {}
                   /\ f \in quarantine_dir

C3_Witness ==
    /\ phase = "idle"
    /\ \E f \in PluginFiles :
        /\ loaded_dir[f] = "protected"
        /\ {"sudo", "ls", "foo"} \subseteq DOMAIN commands
        /\ ~commands["foo"].callable
        /\ commands["sudo"].origin = f

\* C4: after startup and any reloads every built-in name is still in the
\* registry and still maps to its built-in handler.
C4_BuiltinsKept ==
    phase = "idle" =>
        \A n \in BuiltinNames :
            n \in DOMAIN commands /\ commands[n] = BuiltinHandler

\* the top-level statements C5 names: an assignment, a bare call
\* expression, a control-flow statement
ForbiddenTopLevel(stmt) ==
    \/ stmt.type \in {"Assign", "AugAssign", "AnnAssign"}
    \/ stmt.type = "Expr" /\ stmt.node = "Call"
    \/ stmt.type \in {"If", "For", "While", "Try", "With"}

\* C5: a source that does not parse, or that has a top-level assignment,
\* bare call or control-flow statement, gets the verdict REJECT, and
\* validating it executes nothing.
C5_ForbiddenRejected ==
    (/\ verdict # "none"
     /\ \/ ~src.parses
        \/ \E i \in 1..Len(src.body) : ForbiddenTopLevel(src.body[i]))
    => verdict = "REJECT" /\ executed = {}

C5_Witness ==
    /\ verdict = "REJECT"
    /\ src.parses
    /\ Len(src.body) = 2
    /\ src.body[1].type = "FunctionDef"
    /\ src.body[2].type = "Expr" /\ src.body[2].node = "Call"

\* the top-level statements C6 names: imports, definitions with any nested
\* statement, bare string literals
PermittedTopLevel(stmt) ==
    \/ stmt.type \in {"Import", "ImportFrom"}
    \/ stmt.type \in {"FunctionDef", "AsyncFunctionDef", "ClassDef"}
    \/ /\ stmt.type = "Expr"
       /\ stmt.pytype = "str"

\* C6: a source whose top-level statements are only imports, function and
\* class definitions and bare string literals gets the verdict ACCEPT,
\* whatever is nested in the definitions.
C6_PermittedAccepted ==
    (/\ verdict # "none"
     /\ src.parses
     /\ \A i \in 1..Len(src.body) : PermittedTopLevel(src.body[i]))
    => verdict = "ACCEPT"

C6_Witness ==
    /\ verdict = "ACCEPT"
    /\ Len(src.body) = 2
    /\ src.body[1].type = "Expr"
    /\ src.body[2].type = "AsyncFunctionDef" /\ src.body[2].nested = "Call"

\* C7: an extension with a top-level side-effecting statement is rejected
\* before it is executed: its statement never runs, it registers nothing,
\* and after load its file is in quarantine and not at its path.
C7_TopLevelEffectRejected ==
    phase = "idle" =>
        \A f \in PluginFiles :
            (loaded_dir[f] \in Contents /\ HasTopLevelEffect(loaded_dir[f]))
            => /\ <<f, loaded_dir[f]>> \notin executed
               /\ FromFile(f) = {}
               /\ f \in quarantine_dir
               /\ plugin_dir[f] # loaded_dir[f]

\* C8: an extension that imports and is not in the trust store is executed
\* (with import available) only after the operator answered yes.
C8_UntrustedImportNeedsConsent ==
    \A e \in executed :
        (uses_imports(e[2]) /\ e[1] \notin TrustStore)
        => e[1] \in OperatorConfirmed

\* C9: an extension whose load fails at run time (its source raises, it has
\* no register_commands, or the factory returns no dict) registers nothing,
\* stays at its path and out of quarantine, is logged and counted, and
\* every other extension of the directory is still executed and registered.
C9_LoadFailureIsolated ==
    phase = "idle" =>
        \A f \in PluginFiles :
            (loaded_dir[f] \in Contents /\ FailsToLoad(loaded_dir[f]))
            => /\ FromFile(f) = {}
               /\ <<f, loaded_dir[f]>> \in executed
               /\ f \notin quarantine_dir
               /\ edits = 0 => plugin_dir[f] = loaded_dir[f]
               /\ f \in log
               /\ failed_count =
                    Cardinality({g \in PluginFiles :
                        loaded_dir[g] \in Contents /\ FailsToLoad(loaded_dir[g])})
               /\ \A g \in PluginFiles :
                    (loaded_dir[g] \in Contents /\ ~FailsToLoad(loaded_dir[g]))
                    => /\ <<g, loaded_dir[g]>> \in executed
                       /\ ReturnedNames(loaded_dir[g]) \subseteq DOMAIN commands
                       /\ ReturnedNames(loaded_dir[g]) \subseteq plugin_command_names

C9_Witness ==
    /\ phase = "idle"
    /\ loaded_dir[1] = "raiser"
    /\ loaded_dir[2] = "hello"
    /\ prev_dir = loaded_dir
    /\ failed_count = 1
    /\ 1 \in log
    /\ plugin_dir[1] = "raiser"
    /\ commands["hello"].origin = 2

\* C10: a reload that finds the plugin directory as the load before it
\* found it leaves the registry (names and handlers) as that load left it.
C10_ReloadIdempotent ==
    (phase = "idle" /\ prev_dir = loaded_dir) => commands = prev_commands

C10_Witness ==
    /\ phase = "idle"
    /\ prev_dir = loaded_dir
    /\ loaded_dir[1] = "shadow"
    /\ loaded_dir[2] = "hello"
    /\ commands = prev_commands
    /\ commands["help"].origin = 1
    /\ commands["hello"].origin = 2

\* C11: after a reload every registry entry of extension origin was produced
\* by a file that was in the plugin directory at that reload and loaded;
\* no handler of a removed, replaced or now failing file stays resolvable.
C11_ReloadDropsStale ==
    phase = "idle" =>
        \A n \in DOMAIN commands :
            commands[n].origin # 0 =>
                /\ loaded_dir[commands[n].origin] = commands[n].content
                /\ ~FailsToLoad(commands[n].content)
                /\ n \in ReturnedNames(commands[n].content)
                /\ n \in plugin_command_names

C11_Witness ==
    /\ phase = "idle"
    /\ prev_dir[1] = "hello"
    /\ prev_dir[2] = "printer"
    /\ prev_commands["hello"].origin = 1
    /\ loaded_dir[1] = Absent
    /\ loaded_dir[2] = "printer"
    /\ "hello" \notin DOMAIN commands
    /\ commands["echo2"].origin = 2

\* the logger's records of a completed move
Moves == {e \in q_log : e[1] = "warning"}

\* the quarantine paths that hold file c
PathsOf(c) == {p \in DOMAIN q_files : q_files[p] = c}

\* C12: move_to_quarantine never writes over an existing quarantine path:
\* after any sequence of calls, with files of the same base name among them,
\* every file quarantined so far is still at the path its call returned,
\* unchanged, and different files are at different paths.
C12_QuarantineCollisionFree ==
    /\ \A e \in Moves : e[3] \in DOMAIN q_files /\ q_files[e[3]] = e[2]
    /\ \A e1, e2 \in Moves : e1[2] # e2[2] => e1[3] # e2[3]
    /\ q_ret.kind = "path" => <<"warning", q_ret.file, q_ret.path>> \in Moves

C12_Witness ==
    /\ Moves = {<<"warning", 1, <<1>>>>, <<"warning", 2, <<>>>>,
                <<"warning", 3, <<2>>>>}
    /\ q_files = Put(Put(Put(NoFiles, <<1>>, 1), <<>>, 2), <<2>>, 3)
    /\ q_ret.name = <<>>
    /\ q_ret.path = <<2>>

RunEnded == stack[Main] = <<>> /\ leave \in {"exit", "quit", "eof", "error"}

\* the frames of thread t that are in function fn
FramesIn(t, fn) == {i \in 1..Len(stack[t]) : stack[t][i].fn = fn}

\* the renders that have written their cursor-save and not yet their restore
MidRenders ==
    {<<t, i>> \in Threads \X (1..8) :
        /\ i \in FramesIn(t, "render_status_bar")
        /\ stack[t][i].pc \in {"text", "restore"}}

\* C14: once shutdown_status_bar has returned, the scroll region is
\* unrestricted and scroll_region_set is off, whatever set_scroll_region
\* came to before.
C14_ShutdownReleasesRegion ==
    (At(Main, "run", "return") /\ last_event = "shutdown") =>
        term_region = "full" /\ ~scroll_region_set

\* C15: on every way out of the loop of run() (exit, quit, end of input, an
\* error from a command) shutdown_status_bar has run when run() ends, and
\* the top row is no longer reserved.
C15_EveryExitReleases ==
    RunEnded =>
        /\ status_bar_stop_event
        /\ status_bar_thread = 0
        /\ term_region = "full"

\* C16: at most one call of handle_resize is inside the section guarded by
\* resize_lock, the lock is held exactly while one is, and a call that finds
\* the lock held returns without touching the terminal, the scroll-region
\* state or the lock, and starts nothing.
C16_ResizeSerialized ==
    /\ [](/\ Cardinality(FramesIn(Main, "handle_resize")) <= 1
          /\ resize_lock <=> FramesIn(Main, "handle_resize") # {})
    /\ [][(resizes' # resizes /\ resize_lock) =>
             UNCHANGED <<stack, term_region, scroll_region_set, resize_lock,
                         status_bar_stop_event, status_bar_thread>>]_vars

C16_Witness ==
    /\ last_event = "resize dropped"
    /\ resizes = 2
    /\ resize_lock
    /\ At(Main, "render_status_bar", "text")
    /\ FramesIn(Main, "handle_resize") = {Len(stack[Main]) - 1}

\* C17: a render of the status bar is atomic: while one has written its
\* cursor-save and not yet its cursor-restore, no other writer is inside a
\* render of its own.
C17_RenderAtomic == Cardinality(MidRenders) <= 1

\* C18: render_status_bar never raises: a failed size query gives 80
\* columns and the render goes on, any other failure ends in its except
\* clause; the status bar loop ends only on the stop event and run() is
\* never left by a render.
C18_RenderNeverRaises ==
    /\ \A b \in started : stack[b] = <<>> => status_bar_stop_event
    /\ stack[Main] = <<>> => leave # "none"
    /\ \A t \in Threads : \A i \in FramesIn(t, "render_status_bar") :
         /\ stack[t][i].pc \in {"begin", "text", "restore", "except"}
         /\ stack[t][i].pc \in {"text", "restore"}
                => stack[t][i].arg \in {"columns", "80"}

C18_Witness ==
    /\ At(1, "render_status_bar", "except")
    /\ At(Main, "render_status_bar", "restore")
    /\ Top(Main).arg = "80"
    /\ FramesIn(Main, "run") = {1}
    /\ stack[Main][1].pc = "input"
    /\ ~status_bar_stop_event
    /\ leave = "none"

\* C19: an error raised by a command handler is caught where the handler is
\* called: it never ends the loop of run().
C19_HandlerErrorCaught == leave # "error"

\* C20: an interrupt during the read or during a command leaves the loop
\* waiting with running true; only exit, quit and end of input end the
\* loop; end of input prints one farewell.
C20_OnlyExitQuitEof ==
    /\ (last_event = "interrupt" /\ leave = "none") =>
          running /\ At(Main, "run", "input")
    /\ leave \notin {"none", "init_error"} => leave \in {"exit", "quit", "eof"}
    /\ leave = "eof" => farewells = 1

\* C21: a word typed as the first word of a line resolves to the handler
\* registered under any key that equals it up to letter case, whatever the
\* case in which the key was written.
C21_CaseInsensitiveLookup ==
    dispatched # NotDispatched =>
        \A k \in DOMAIN commands :
            lower(k) = lower(split(dispatched.expanded)[1]) =>
                dispatched.handler = commands[k]

\* C22: a line whose first word is an alias name is replaced by the alias's
\* command followed by the remaining words, a line whose first word is no
\* alias name stays as typed, and the first word of the result is looked up
\* among the commands only, never among the aliases again.
C22_AliasExpandedOnce ==
    [][dispatched' # dispatched =>
          LET words == split(strip(dispatched'.line))
          IN  /\ dispatched'.expanded =
                     IF words[1] \in DOMAIN aliases
                     THEN join(<<aliases[words[1]]>> \o Tail(words))
                     ELSE dispatched'.line
              /\ dispatched'.handler =
                     IF dispatched'.cmd \in DOMAIN commands
                     THEN commands[dispatched'.cmd] ELSE SystemCommand
              /\ dispatched'.cmd = lower(split(dispatched'.expanded)[1])]_vars

\* the alias g = "g -l" names itself; "g" was typed and became "g -l", whose
\* first word is still an alias name and went to the shell as it is
C22_Witness ==
    /\ <<"g">> \in DOMAIN aliases
    /\ aliases[<<"g">>] = <<"g", " ", "-", "l">>
    /\ dispatched.line = <<"g">>
    /\ dispatched.expanded = <<"g", " ", "-", "l">>
    /\ dispatched.handler = SystemCommand

\* C24: once the preferences are loaded, the status bar colour is a name of
\* the palette, whatever the preferences file held and whatever colour
\* names were typed.
C24_ColorInPalette ==
    phase = "idle" => status_bar_color \in STATUS_BAR_COLORS

\* C30: the aliases file, read into an empty map, gives the alias map in
\* memory, after every alias and unalias command.
C30_AliasRoundTrip ==
    phase = "idle" => load_aliases(NoAliases, aliases_file) = aliases

\* the printing characters of a text
VisibleLen(s) == Cardinality({i \in 1..Len(s) : s[i] \in {" ", "v"}})

\* every control sequence of the text is whole: each ESC is followed by its
\* parameters and its final letter, and no parameter or final letter stands
\* outside a sequence
Intact(s) ==
    /\ \A i \in 1..Len(s) :
           s[i] = "E" =>
               \E j \in (i + 1)..Len(s) :
                   s[j] = "m" /\ \A k \in (i + 1)..(j - 1) : s[k] = "c"
    /\ \A i \in 1..Len(s) :
           s[i] \in {"c", "m"} => i > 1 /\ s[i - 1] \in {"E", "c"}

\* C23: for every terminal width of at least one column the built status
\* bar text has exactly that many printing characters, and no control
\* sequence of it is cut.
C23_BarFillsWidth ==
    (bar_text # <<>> /\ columns >= 1) =>
        VisibleLen(bar_text) = columns /\ Intact(bar_text)

\* the handler is not running on the main thread
NoResizeInProgress == FramesIn(Main, "handle_resize") = {}

\* C28: resize_lock is released on every way out of handle_resize, also when
\* a step of it raises: whenever no call of the handler is in progress the
\* lock is free, the step that ends a call leaves it free, and a notification
\* that arrives while none is in progress is handled.
C28_ResizeLockReleased ==
    /\ [](NoResizeInProgress => ~resize_lock)
    /\ [][(~NoResizeInProgress /\ NoResizeInProgress') => ~resize_lock']_vars
    /\ [][(resizes' # resizes /\ NoResizeInProgress) =>
             /\ At(Main, "handle_resize", "reset")'
             /\ last_event' = "resize"]_vars

\* reset_scroll_region raised inside the handler, the handler has returned
\* and the lock is free again
C28_Witness ==
    /\ last_event = "resize error"
    /\ NoResizeInProgress
    /\ ~resize_lock
    /\ resizes >= 1

\* the shutdown_status_bar that run() calls in its finally clause is over
FinalShutdownDone ==
    /\ stack[Main] # <<>>
    /\ stack[Main][1].fn = "run"
    /\ stack[Main][1].pc = "return"
    /\ FramesIn(Main, "shutdown_status_bar") = {}

\* C29: once the shutdown_status_bar of run()'s finally clause has returned,
\* nothing reserves the top row again and nothing sets scroll_region_set,
\* a later resize notification included.
C29_NoReserveAfterShutdown ==
    [][FinalShutdownDone =>
          /\ term_region' = "reserved" => term_region = "reserved"
          /\ scroll_region_set' => scroll_region_set]_vars

\* the registry a finished construction or reload leaves for the directory
FullRegistry == load_plugins(BuiltinCommands, {}, {}, {}, plugin_dir).commands

LiveLoops == {b \in BarThreads : Alive(b)}

\* C26: whatever sequence of initialize_status_bar and shutdown_status_bar
\* calls is made, a shutdown whose join timed out followed by a new
\* initialize included, at most one status bar loop is running.
C26_AtMostOneLoop == Cardinality(LiveLoops) <= 1

\* C27: once the stop event is set, and as long as it is not cleared, a
\* running status bar loop ends; while the event is set the loop calls
\* render_status_bar no more, so the render it had already called is the
\* last one; and a loop that has ended takes no further step.
C27_LoopStopsOnEvent ==
    /\ \A b \in BarThreads :
           (status_bar_stop_event /\ Alive(b))
               ~> (~Alive(b) \/ ~status_bar_stop_event)
    /\ [][\A b \in BarThreads :
             /\ (status_bar_stop_event /\ status_bar_stop_event') =>
                    Len(stack'[b]) <= Len(stack[b])
             /\ (b \in started /\ ~Alive(b)) => stack'[b] = <<>>]_vars

\* shutdown_status_bar has set the event and given up its join; the thread
\* has outlived the join and is still writing the bar text
C27_Witness ==
    /\ status_bar_stop_event
    /\ status_bar_thread = 0
    /\ At(Main, "caller", "idle")
    /\ \E b \in started : At(b, "render_status_bar", "text")

====
